---- MODULE Spec2Model ----
(***************************************************************************)
(* Model of chacra's recurring tasks (chacra/async/recurring.py):          *)
(* poll_repos and purge_repos running against the shared Repo/Binary       *)
(* tables, the build queue and the filesystem, together with the external  *)
(* build workers and the repo update/recreate endpoints that change the    *)
(* flags the poller gates on.                                              *)
(*                                                                         *)
(* A task reads a row through its SQLAlchemy session: the attributes are   *)
(* those loaded by the query until the task's first commit expires them,   *)
(* and are re-read from the database afterwards. A task's writes reach the *)
(* database at models.commit(), a step of its own, so the notification and *)
(* the job of lines 32-44 are out before the flag is.                      *)
(* Query.all() is taken to return the rows in id order. The build_repos    *)
(* queue is kept per repo: no property here depends on the order of jobs   *)
(* of different repos. Time is not modelled: a delayed job may start at    *)
(* any moment after it was submitted.                                      *)
(*                                                                         *)
(* The callback task is modelled on its own, one task from its submission  *)
(* to its end: each delivery runs lines 128-163 in one step, and a retry   *)
(* that self.retry() scheduled is delivered in a later step.               *)
(***************************************************************************)
EXTENDS Integers, Sequences, FiniteSets, TLC

\* ------------------------------------------------------------- bounds
\* number of update/recreate requests the API receives in a behaviour
MaxTriggers == 1

\* ------------------------------------------------- program constants
\* datetime.timedelta(weeks=2): the retention window, in weeks
lifespan_weeks == 2
\* @shared_task(default_retry_delay=30): seconds before a retry is delivered
default_retry_delay == 30
\* no max_retries is set on the task: celery's default, "retry 3 times"
max_retries == 3

\* ------------------------------------------------------------- inputs
\* the ids of the Repo rows
RepoIds == {1, 2}
\* celery workers that may run poll_repos
Workers == {"w1", "w2"}
\* Repo.type: 'rpm', 'deb', or None (written "unknown")
Types == {"rpm", "deb", "unknown"}
\* pecan.conf.quiet_time values tried
QuietTimes == {5}
\* Repo.modified, in weeks since an epoch
Modifieds == {1, 2}
\* the _now argument of purge_repos (or utcnow()), in weeks
Nows == {3, 4}
\* the repos the CRUD layer has created: the type it recorded, and the
\* extension of each Binary uploaded to the repo, in order
Profiles == {<<"rpm", <<"rpm">> >>, <<"deb", <<"deb">> >>,
             <<"unknown", <<"deb">> >>, <<"unknown", <<"txt", "rpm">> >>,
             <<"unknown", << >> >>}
\* the url argument of callback: None, or given by the caller
Urls == {"none", "explicit"}
\* the data argument of callback: an encoded JSON string, a dictionary, a
\* dictionary json.dumps rejects with TypeError, and one it rejects with
\* ValueError (a circular reference)
Payloads == {"str", "dict", "dict_type_error", "dict_circular"}
\* what requests.post / raise_for_status do on an attempt: a 2xx/3xx response,
\* a 4xx/5xx response (HTTPError), or no response (ConnectionError, Timeout)
Responses == {"ok", "http_error", "conn_error"}

VARIABLES
    repo,          \* committed Repo rows: id -> record
    bins,          \* committed Binary rows of each repo: id -> Seq(extension)
    files,         \* id -> Seq(BOOLEAN): the storage file of the i-th binary exists
    dirs,          \* id -> BOOLEAN: the directory at Repo.path exists on disk
    quiet_time,    \* pecan.conf.quiet_time
    queue,         \* id -> Seq(job): delayed build jobs of the build_repos queue
    running,       \* id -> Nat: build jobs being executed for the repo
    triggers,      \* update/recreate requests served so far
    pc,            \* worker -> position in poll_repos
    todo,          \* worker -> rows of the query still to iterate
    view,          \* worker -> the rows as loaded by the query (session state)
    expired,       \* worker -> the session expired its objects (after a commit)
    pending_type,  \* worker -> the r.type assignment waiting for commit
    notes,         \* worker -> post_queued calls of the current cycle
    ppc,           \* position in purge_repos
    ptodo,         \* rows of the purge query still to iterate
    pview,         \* id -> Repo.path as loaded by the purge query
    pexpired,      \* the purge session expired its objects
    lifespan,      \* now - 2 weeks of the current purge cycle
    deleted_notes, \* post_deleted calls of the current purge cycle
    purge_flag,    \* pecan.conf.purge_repos as the latest purge cycle read it
    cb_pc,         \* position of the callback task
    cb_args,       \* the url and data arguments the callback was submitted with
    cb_conf,       \* which of callback_url, callback_user, callback_key are set
    cb_retries,    \* self.request.retries of the current delivery
    cb_posts,      \* the requests.post calls made so far: url and outcome
    cb_delay,      \* countdown of the retry requested last
    streak,        \* history: poll cycles run back to back with nothing else acting
    inferred       \* history: repos whose type the cycles of the streak inferred

vars == <<repo, bins, files, dirs, quiet_time, queue, running, triggers,
          pc, todo, view, expired, pending_type, notes,
          ppc, ptodo, pview, pexpired, lifespan, deleted_notes, purge_flag,
          cb_pc, cb_args, cb_conf, cb_retries, cb_posts, cb_delay,
          streak, inferred>>

dbvars == <<repo, bins>>
fsvars == <<files, dirs>>
pollvars == <<pc, todo, view, expired, pending_type, notes>>
purgevars == <<ppc, ptodo, pview, pexpired, lifespan, deleted_notes, purge_flag>>
cbvars == <<cb_pc, cb_args, cb_conf, cb_retries, cb_posts, cb_delay>>
histvars == <<streak, inferred>>

\* a deleted (absent) Repo row
NoRow == [exists |-> FALSE, type |-> "unknown", needs_update |-> FALSE,
          is_queued |-> FALSE, is_updating |-> FALSE, path |-> FALSE,
          modified |-> 0]

\* a Repo as the CRUD layer creates it
NewRepo(t, m) == [exists |-> TRUE, type |-> t, needs_update |-> TRUE,
                  is_queued |-> FALSE, is_updating |-> FALSE, path |-> FALSE,
                  modified |-> m]

\* ascending sequence of the members of a set of ids
RECURSIVE SortedSeq(_)
SortedSeq(S) ==
    IF S = {} THEN << >>
    ELSE LET m == CHOOSE x \in S : \A y \in S : x <= y
         IN <<m>> \o SortedSeq(S \ {m})

\* the tables, the queue and the recurring tasks before any task has run
InitRecurring ==
    /\ \E prof \in [RepoIds -> Profiles], m \in [RepoIds -> Modifieds] :
          /\ repo = [r \in RepoIds |-> NewRepo(prof[r][1], m[r])]
          /\ bins = [r \in RepoIds |-> prof[r][2]]
    /\ files = [r \in RepoIds |-> [i \in 1..Len(bins[r]) |-> TRUE]]
    /\ dirs = [r \in RepoIds |-> FALSE]
    /\ quiet_time \in QuietTimes
    /\ queue = [r \in RepoIds |-> << >>]
    /\ running = [r \in RepoIds |-> 0]
    /\ triggers = 0
    /\ pc = [w \in Workers |-> "idle"]
    /\ todo = [w \in Workers |-> << >>]
    /\ view = [w \in Workers |-> [r \in RepoIds |-> NoRow]]
    /\ expired = [w \in Workers |-> FALSE]
    /\ pending_type = [w \in Workers |-> "none"]
    /\ notes = [w \in Workers |-> << >>]
    /\ ppc = "idle"
    /\ ptodo = << >>
    /\ pview = [r \in RepoIds |-> FALSE]
    /\ pexpired = FALSE
    /\ lifespan = 0
    /\ deleted_notes = << >>
    /\ purge_flag = FALSE
    /\ streak = "none"
    /\ inferred = {}

\* no callback has been submitted
NoCallback ==
    /\ cb_pc = "idle"
    /\ cb_args = [url |-> "none", data |-> "str"]
    /\ cb_conf = [callback_url |-> FALSE, callback_user |-> FALSE,
                  callback_key |-> FALSE]
    /\ cb_retries = 0
    /\ cb_posts = << >>
    /\ cb_delay = 0

Init == InitRecurring /\ NoCallback

\* ------------------------------------------------------------ poll_repos

\* the query without its is_queued filter
PollQuery_any_queued == {r \in RepoIds : repo[r].exists /\ repo[r].needs_update}

\* models.Repo.query.filter_by(needs_update=True, is_queued=False)
PollQuery == {r \in RepoIds : repo[r].exists /\ repo[r].needs_update
                                /\ ~repo[r].is_queued}

\* Repo.infer_type(): the type of the first binary whose extension names one
infer_type(r) ==
    LET known == {i \in 1..Len(bins[r]) : bins[r][i] \in {"rpm", "deb"}}
    IN IF known = {} THEN "none"
       ELSE bins[r][CHOOSE i \in known : \A j \in known : i <= j]

\* the attributes poll_repos reads from r: the loaded object, or the row
\* re-read from the database once the session's objects are expired
Observed(w, r) == IF expired[w] THEN repo[r] ELSE view[w][r]

\* the two builders taken for each other
Builder_swapped(t) == IF t = "rpm" THEN "create_deb_repo"
                      ELSE IF t = "deb" THEN "create_rpm_repo" ELSE "none"

\* the builder task poll_repos chooses for a type
Builder(t) == IF t = "rpm" THEN "create_rpm_repo"
              ELSE IF t = "deb" THEN "create_deb_repo" ELSE "none"

\* apply_async((r.id,), countdown=pecan.conf.quiet_time, queue='build_repos')
apply_async(r, task) ==
    [queue EXCEPT ![r] = Append(@, [task |-> task, countdown |-> quiet_time])]

\* the session state of a task that holds no loaded rows
NoView == [r \in RepoIds |-> NoRow]

\* the task's position and locals after an assignment to all of them
Locals(w, pc_, todo_, view_, expired_, type_, notes_) ==
    /\ pc' = [pc EXCEPT ![w] = pc_]
    /\ todo' = [todo EXCEPT ![w] = todo_]
    /\ view' = [view EXCEPT ![w] = view_]
    /\ expired' = [expired EXCEPT ![w] = expired_]
    /\ pending_type' = [pending_type EXCEPT ![w] = type_]
    /\ notes' = [notes EXCEPT ![w] = notes_]

\* the task returns or raises: its locals and its session are gone
TaskEnds(w, how) == Locals(w, how, << >>, NoView, FALSE, "none", << >>)

\* the loop moves on to the next row of the query, or the task returns;
\* exp: the session has expired its objects
NextRow(w, exp) ==
    IF Len(todo[w]) = 1
    THEN TaskEnds(w, "done")
    ELSE Locals(w, "scan", Tail(todo[w]),
                IF exp THEN NoView ELSE [view[w] EXCEPT ![Head(todo[w])] = NoRow],
                exp, "none", notes[w])

\* no other worker is inside poll_repos
Alone(w) == \A v \in Workers \ {w} : pc[v] \notin {"scan", "commit"}

\* something other than an undisturbed poll cycle acted: the streak is over
Disturbed == streak' = "none" /\ inferred' = {}

\* the streak when a cycle starts; ends: the query was empty and it returns
StreakAtStart(w, ends) ==
    IF ~Alone(w) THEN "none"
    ELSE IF streak = "none" THEN (IF ends THEN "one" ELSE "run1")
    ELSE (IF ends THEN "two" ELSE "run2")

\* the streak after a step of the running cycle; ends: the task returns
StreakAtStep(ends) ==
    IF ~ends THEN streak
    ELSE IF streak = "run1" THEN "one"
    ELSE IF streak = "run2" THEN "two" ELSE "none"

\* line 24: the task starts and runs the query
PollStart(w) ==
    /\ pc[w] \in {"idle", "done", "failed"}
    /\ IF PollQuery = {}
       THEN TaskEnds(w, "done")
       ELSE Locals(w, "scan", SortedSeq(PollQuery),
                   [r \in RepoIds |-> IF r \in PollQuery THEN repo[r] ELSE NoRow],
                   FALSE, "none", << >>)
    /\ streak' = StreakAtStart(w, PollQuery = {})
    /\ inferred' = IF streak = "none" \/ ~Alone(w) THEN {} ELSE inferred
    /\ UNCHANGED <<dbvars, fsvars, quiet_time, cbvars, queue, running, triggers, purgevars>>

\* the gate without its is_updating test
Skips_not_gated(o) == ~o.needs_update

\* lines 27-29: the row is passed over: a build is running, or (after a
\* refresh) it no longer needs an update
Skips(o) == o.is_updating \/ ~o.needs_update

\* a job is submitted for the type just inferred as well
Dispatched_inferred(r, t) ==
    IF t \in {"rpm", "deb"} THEN apply_async(r, Builder(t))
    ELSE IF infer_type(r) # "none" THEN apply_async(r, Builder(infer_type(r)))
    ELSE queue

\* lines 33-44: the job submitted for a repo of type t, if any
Dispatched(r, t) ==
    IF t \in {"rpm", "deb"} THEN apply_async(r, Builder(t)) ELSE queue

\* lines 45-52: the type assignment left for the commit, if any
Inferred(r, t) ==
    IF t \in {"rpm", "deb"} THEN "none" ELSE infer_type(r)

\* lines 27-52 for the next row: the gate, the flag, the notification, the job
PollDispatch(w) ==
    /\ pc[w] = "scan"
    /\ LET r == Head(todo[w])
           o == Observed(w, r)
       IN IF expired[w] /\ ~repo[r].exists
          THEN \* refreshing a deleted row raises: the task fails
               /\ TaskEnds(w, "failed")
               /\ Disturbed
               /\ UNCHANGED queue
          ELSE IF Skips(o)
          THEN \* continue (27-28), or nothing to do (29)
               /\ NextRow(w, expired[w])
               /\ streak' = StreakAtStep(Len(todo[w]) = 1)
               /\ UNCHANGED <<queue, inferred>>
          ELSE \* r.is_queued = True; post_queued(r); the job or the inference
               /\ queue' = Dispatched(r, o.type)
               /\ Locals(w, "commit", todo[w], view[w], expired[w],
                         Inferred(r, o.type), Append(notes[w], r))
               /\ UNCHANGED histvars
    /\ UNCHANGED <<dbvars, fsvars, quiet_time, cbvars, running, triggers, purgevars>>

\* the row as models.commit() writes it: is_queued, and the inferred type
Committed(w, r) ==
    [repo[r] EXCEPT !.is_queued = TRUE,
                    !.type = IF pending_type[w] = "none" THEN @
                             ELSE pending_type[w]]

\* line 54: models.commit()
PollCommit(w) ==
    /\ pc[w] = "commit"
    /\ LET r == Head(todo[w])
       IN IF ~repo[r].exists
          THEN \* the UPDATE matches no row: the commit raises
               /\ TaskEnds(w, "failed")
               /\ Disturbed
               /\ UNCHANGED repo
          ELSE /\ repo' = [repo EXCEPT ![r] = Committed(w, r)]
               /\ NextRow(w, TRUE)
               /\ streak' = StreakAtStep(Len(todo[w]) = 1)
               /\ inferred' = IF streak # "none" /\ pending_type[w] # "none"
                               THEN inferred \cup {r} ELSE inferred
    /\ UNCHANGED <<bins, fsvars, quiet_time, cbvars, queue, running, triggers, purgevars>>

poll_repos(w) == PollStart(w) \/ PollDispatch(w) \/ PollCommit(w)

\* ----------------------------------------------------------- purge_repos

\* the boundary itself selected too
PurgeQuery_inclusive(now) == {r \in RepoIds : repo[r].exists
                                /\ repo[r].modified <= now - lifespan_weeks}

\* models.Repo.query.filter(models.Repo.modified < lifespan), lifespan = now - 2 weeks
PurgeQuery(now) == {r \in RepoIds : repo[r].exists
                                      /\ repo[r].modified < now - lifespan_weeks}

\* purge_repos returns or raises: its locals and its session are gone
PurgeEnds(how) ==
    /\ ppc' = how
    /\ ptodo' = << >>
    /\ pview' = [r \in RepoIds |-> FALSE]
    /\ pexpired' = FALSE

\* the flag check passing every configuration
Disabled_never(flag) == FALSE

\* line 64: getattr(pecan.conf, 'purge_repos', False) is False; an unset
\* option reads as False
Disabled(flag) == flag = FALSE

\* lines 64-74: the feature flag, the boundary, the query
PurgeStart(flag, now) ==
    /\ Disturbed
    /\ ppc \in {"idle", "done", "skipped", "failed_enoent", "failed_oserror"}
    /\ deleted_notes' = << >>
    /\ purge_flag' = flag
    /\ IF Disabled(flag)
       THEN \* purge_repos unset or False: return
            /\ PurgeEnds("skipped")
            /\ lifespan' = 0
       ELSE /\ lifespan' = now - lifespan_weeks
            /\ IF PurgeQuery(now) = {}
               THEN PurgeEnds("done")
               ELSE /\ ppc' = "purging"
                    /\ ptodo' = SortedSeq(PurgeQuery(now))
                    /\ pview' = [r \in RepoIds |->
                                   r \in PurgeQuery(now) /\ repo[r].path]
                    /\ pexpired' = FALSE
    /\ UNCHANGED <<dbvars, fsvars, quiet_time, cbvars, queue, running, triggers, pollvars>>

\* lines 76-84: os.remove of every binary's file; `denied` are the files whose
\* removal raises an OSError other than ENOENT. Every OSError is caught and
\* not re-raised, so a file is left only when its removal was denied
RemoveFiles(r, denied) ==
    [i \in 1..Len(files[r]) |->
        IF i \in 1..Len(bins[r]) /\ i \notin denied THEN FALSE ELSE files[r][i]]

\* lines 85-92: shutil.rmtree(r.path) raises when the directory is missing
\* (ENOENT) or on any other OSError; the handler re-raises both
RmtreeRaises(p, r, dirError) == p /\ (~dirs[r] \/ dirError)

\* r.path as purge_repos reads it: loaded by the query, or re-read from the
\* database once a commit has expired the session's objects
PurgePath(r) == IF pexpired THEN repo[r].path ELSE pview[r]

\* the row left in the table
Deleted_kept(row) == row

\* lines 94-95: r.delete(); models.commit()
Deleted(row) == NoRow

\* post_deleted called before the directory is removed
Notified_before_rmtree(r, raised) == Append(deleted_notes, r)

\* line 93: post_deleted(r), reached only when lines 85-92 did not raise
Notified(r, raised) == IF raised THEN deleted_notes ELSE Append(deleted_notes, r)

\* lines 75-95 for the next row of the purge query
PurgeRepo(denied, dirError) ==
    /\ Disturbed
    /\ ppc = "purging"
    /\ LET r == Head(ptodo)
           p == PurgePath(r)
       IN /\ denied \subseteq {i \in 1..Len(bins[r]) : files[r][i]}
          /\ dirError => p /\ dirs[r]
          /\ files' = [files EXCEPT ![r] = RemoveFiles(r, denied)]
          /\ deleted_notes' = Notified(r, RmtreeRaises(p, r, dirError))
          /\ IF RmtreeRaises(p, r, dirError)
             THEN \* the task fails; the flushed Binary deletes are rolled back
                  /\ PurgeEnds(IF dirs[r] THEN "failed_oserror" ELSE "failed_enoent")
                  /\ UNCHANGED <<repo, bins, dirs>>
             ELSE /\ dirs' = [dirs EXCEPT ![r] = IF p THEN FALSE ELSE @]
                  /\ repo' = [repo EXCEPT ![r] = Deleted(repo[r])]
                  /\ bins' = [bins EXCEPT ![r] = << >>]
                  /\ IF Len(ptodo) = 1
                     THEN PurgeEnds("done")
                     ELSE /\ ppc' = "purging"
                          /\ ptodo' = Tail(ptodo)
                          /\ pview' = [r2 \in RepoIds |-> FALSE]
                          /\ pexpired' = TRUE
    /\ UNCHANGED <<quiet_time, cbvars, queue, running, triggers, pollvars, lifespan,
                   purge_flag>>

\* the filesystem faults purge_repos may meet: the binary files whose removal
\* is denied, and whether removing the directory is
NoFaults == {<<{}, FALSE>>}
AnyFaults == (SUBSET (1..2)) \X BOOLEAN

\* ------------------------------------------- build workers (external)

\* a worker takes the repo's oldest delayed job once its countdown is over:
\* it clears is_queued and holds is_updating; a job for a deleted repo is dropped
BuildStart(r) ==
    /\ Disturbed
    /\ queue[r] # << >>
    /\ queue' = [queue EXCEPT ![r] = Tail(@)]
    /\ IF repo[r].exists
       THEN /\ repo' = [repo EXCEPT ![r].is_queued = FALSE, ![r].is_updating = TRUE]
            /\ running' = [running EXCEPT ![r] = @ + 1]
       ELSE UNCHANGED <<repo, running>>
    /\ UNCHANGED <<bins, fsvars, quiet_time, cbvars, triggers, pollvars, purgevars>>

\* the build completes: path is set, needs_update and is_updating are cleared
BuildFinish(r) ==
    /\ Disturbed
    /\ running[r] > 0
    /\ running' = [running EXCEPT ![r] = @ - 1]
    /\ IF repo[r].exists
       THEN /\ repo' = [repo EXCEPT ![r].path = TRUE, ![r].needs_update = FALSE,
                                    ![r].is_updating = FALSE]
            /\ dirs' = [dirs EXCEPT ![r] = TRUE]
       ELSE UNCHANGED <<repo, dirs>>
    /\ UNCHANGED <<bins, files, quiet_time, cbvars, queue, triggers, pollvars, purgevars>>

\* ------------------------------------------- repo endpoints (external)

\* POST .../update: the repo is marked for the poller
update_post(r) ==
    /\ Disturbed
    /\ repo[r].exists
    /\ triggers < MaxTriggers
    /\ triggers' = triggers + 1
    /\ repo' = [repo EXCEPT ![r].needs_update = TRUE, ![r].is_queued = FALSE]
    /\ UNCHANGED <<bins, fsvars, quiet_time, cbvars, queue, running, pollvars, purgevars>>

\* POST .../recreate: the repo's directory is removed and the repo is marked
recreate_post(r) ==
    /\ Disturbed
    /\ repo[r].exists
    /\ triggers < MaxTriggers
    /\ triggers' = triggers + 1
    /\ repo' = [repo EXCEPT ![r].needs_update = TRUE, ![r].is_queued = FALSE]
    /\ dirs' = [dirs EXCEPT ![r] = IF repo[r].path THEN FALSE ELSE @]
    /\ UNCHANGED <<bins, files, quiet_time, cbvars, queue, running, pollvars, purgevars>>

\* -------------------------------------------------------------- callback

\* callback.apply_async(...): a callback waits for its first delivery, with
\* some arguments, under some configuration
Submitted ==
    /\ cb_pc = "pending"
    /\ cb_args \in [url : Urls, data : Payloads]
    /\ cb_conf \in [callback_url : BOOLEAN, callback_user : BOOLEAN,
                     callback_key : BOOLEAN]
    /\ cb_retries = 0
    /\ cb_posts = << >>
    /\ cb_delay = 0

\* the url argument not looked at
NoEndpoint_conf_only == ~cb_conf.callback_url

\* lines 128-130: no url argument and no callback_url configured
NoEndpoint == cb_args.url = "none" /\ ~cb_conf.callback_url

\* line 131: the url posted to: the argument, or callback_url/project_name/
UrlUsed == IF cb_args.url = "none" THEN "conf" ELSE "explicit"

\* a missing callback_key not noticed
NoAuth_user_only == ~cb_conf.callback_user

\* lines 134-139: reading callback_user or callback_key raises AttributeError
NoAuth == ~cb_conf.callback_user \/ ~cb_conf.callback_key

\* a retry granted once more than max_retries allows
RetryGranted_one_more(retries) == retries <= max_retries

\* Task.retry(): the retry is scheduled unless the retries already made
\* have reached max_retries; then the exception is raised instead
RetryGranted(retries) == retries + 1 <= max_retries

\* every failure of the send taken for an HTTP error status
Retried_any_failure(resp) == resp # "ok"

\* lines 157-160: raise_for_status() raises HTTPError and self.retry is called
Retried(resp) == resp = "http_error"

\* the task ends at position `how` having made no request
EndsUnsent(how) ==
    /\ cb_pc' = how
    /\ UNCHANGED <<cb_posts, cb_delay>>

\* lines 128-163: one delivery of the task runs to its end
callback_run(resp) ==
    /\ cb_pc = "pending"
    /\ IF NoEndpoint
       THEN EndsUnsent("returned_none")                       \* line 130
       ELSE IF NoAuth
       THEN EndsUnsent("returned_false")                      \* line 139
       ELSE IF cb_args.data = "dict_type_error"
       THEN EndsUnsent("returned_false")                      \* line 148
       ELSE IF cb_args.data = "dict_circular"
       THEN EndsUnsent("raised_value_error")                  \* line 145
       ELSE /\ cb_posts' = Append(cb_posts, [url |-> UrlUsed, resp |-> resp])
            /\ IF Retried(resp)
               THEN IF RetryGranted(cb_retries)
                    THEN /\ cb_pc' = "retry"
                         /\ cb_delay' = default_retry_delay
                    ELSE /\ cb_pc' = "raised_http_error"
                         /\ UNCHANGED cb_delay
               ELSE \* the response is fine, or the failure is swallowed (161-163)
                    /\ cb_pc' = "returned_none"
                    /\ UNCHANGED cb_delay
    /\ UNCHANGED <<cb_args, cb_conf, cb_retries>>
    /\ UNCHANGED <<dbvars, fsvars, quiet_time, queue, running, triggers,
                   pollvars, purgevars, histvars>>

\* the queue delivers the retry once its countdown is over
callback_redeliver ==
    /\ cb_pc = "retry"
    /\ cb_pc' = "pending"
    /\ cb_retries' = cb_retries + 1
    /\ UNCHANGED <<cb_args, cb_conf, cb_posts, cb_delay>>
    /\ UNCHANGED <<dbvars, fsvars, quiet_time, queue, running, triggers,
                   pollvars, purgevars, histvars>>

\* ------------------------------------------------------ specifications

\* one poller, as celery beat schedules poll_repos, the purge task, the build
\* workers and the API; the filesystem fails in no other way than by a file
\* or a directory being gone
Next ==
    \/ PollStart("w1")
    \/ PollDispatch("w1")
    \/ PollCommit("w1")
    \/ \E flag \in BOOLEAN, now \in Nows : PurgeStart(flag, now)
    \/ \E f \in NoFaults : PurgeRepo(f[1], f[2])
    \/ \E r \in RepoIds : BuildStart(r)
    \/ \E r \in RepoIds : BuildFinish(r)
    \/ \E r \in RepoIds : update_post(r)
    \/ \E r \in RepoIds : recreate_post(r)

Spec == Init /\ [][Next]_vars

\* two workers may run poll_repos at once; the purge task is left out
Race ==
    \/ \E w \in Workers : PollStart(w)
    \/ \E w \in Workers : PollDispatch(w)
    \/ \E w \in Workers : PollCommit(w)
    \/ \E r \in RepoIds : BuildStart(r)
    \/ \E r \in RepoIds : BuildFinish(r)
    \/ \E r \in RepoIds : update_post(r)
    \/ \E r \in RepoIds : recreate_post(r)

\* Repo.modified is read by purge_repos alone
InitRace == Init /\ \A r \in RepoIds : repo[r].modified = 1

SpecRace == InitRace /\ [][Race]_vars

\* the purge task with a filesystem that may also deny a removal
Faulty ==
    \/ \E flag \in BOOLEAN, now \in Nows : PurgeStart(flag, now)
    \/ \E f \in AnyFaults : PurgeRepo(f[1], f[2])
    \/ \E r \in RepoIds : BuildStart(r)
    \/ \E r \in RepoIds : BuildFinish(r)
    \/ PollStart("w1")
    \/ PollDispatch("w1")
    \/ PollCommit("w1")

SpecFaults == Init /\ [][Faulty]_vars

\* one callback task from its submission to its end, against an endpoint
\* that may answer each attempt in any way
Notify ==
    \/ \E resp \in Responses : callback_run(resp)
    \/ callback_redeliver

\* the recurring tasks do not run: the tables are left as created
InitCallback ==
    /\ InitRecurring
    /\ \A r \in RepoIds : repo[r].type = "rpm" /\ repo[r].modified = 1
    /\ Submitted

SpecCallback == InitCallback /\ [][Notify]_vars

\* ------------------------------------------------------------ properties

\* worker w takes a step of poll_repos
PollStep(w) == <<pc[w], todo[w]>>' # <<pc[w], todo[w]>>

\* worker w takes the step of poll_repos at position `at` that handles row r
Handles(w, r, at) == pc[w] = at /\ Head(todo[w]) = r /\ PollStep(w)

\* purge_repos takes a step
PurgeStep == <<ppc, ptodo, lifespan, deleted_notes>>' # <<ppc, ptodo, lifespan, deleted_notes>>

\* the step emits no queued notification
NoQueuedNote(w) == notes'[w] = notes[w] \/ notes'[w] = << >>

InSeq(x, seq) == \E i \in 1..Len(seq) : seq[i] = x

\* what poll_repos sees of row r is needs_update, not queued, not updating
\* and a type of rpm or deb
Eligible(w, r) ==
    LET o == Observed(w, r)
    IN o.needs_update /\ ~o.is_queued /\ ~o.is_updating /\ o.type \in {"rpm", "deb"}

\* C1: when poll_repos scans a repo it sees with needs_update, not queued, not
\* updating and of type rpm or deb, it submits exactly one job for that repo,
\* create_rpm_repo for rpm and create_deb_repo for deb, with countdown
\* quiet_time, and goes on to commit; the commit sets is_queued on the row (if
\* the row still exists); no step of the cycle changes the queue of a repo
\* other than such a one.
C1_EligibleRepoDispatchedOnce ==
    [][\A w \in Workers : \A r \in RepoIds :
        /\ (Handles(w, r, "scan") /\ Eligible(w, r)) =>
              /\ queue' = [queue EXCEPT ![r] = Append(@,
                    [task |-> IF Observed(w, r).type = "rpm"
                              THEN "create_rpm_repo" ELSE "create_deb_repo",
                     countdown |-> quiet_time])]
              /\ pc'[w] = "commit"
        /\ (Handles(w, r, "commit") /\ repo[r].exists) =>
              /\ repo'[r].is_queued
              /\ queue' = queue
        /\ (PollStep(w) /\ ~(Handles(w, r, "scan") /\ Eligible(w, r))) =>
              queue'[r] = queue[r]
      ]_vars

\* C1 witness: the poller has dispatched an rpm repo and is about to commit,
\* the one job in the repo's queue being the rpm builder's, delayed quiet_time
C1_Witness ==
    \E r \in RepoIds :
        /\ pc["w1"] = "commit" /\ Head(todo["w1"]) = r
        /\ repo[r].type = "rpm" /\ ~repo[r].is_queued
        /\ queue[r] = <<[task |-> "create_rpm_repo", countdown |-> quiet_time]>>
        /\ \A r2 \in RepoIds \ {r} : queue[r2] = << >>

\* C2: at most one build job per repo is pending or running at any time, under
\* any interleaving of two pollers (here even when no update or recreate
\* request was ever made).
C2_AtMostOneBuildInFlight ==
    triggers = 0 => \A r \in RepoIds : Len(queue[r]) + running[r] <= 1

\* C3: when poll_repos scans a repo whose is_updating it sees true, the step
\* submits no job, emits no queued notification, changes no row and does not
\* go on to commit, whatever the other flags are.
C3_UpdatingNeverDispatched ==
    [][\A w \in Workers : \A r \in RepoIds :
        (Handles(w, r, "scan") /\ Observed(w, r).is_updating) =>
            /\ queue' = queue
            /\ NoQueuedNote(w)
            /\ repo' = repo /\ bins' = bins
            /\ pc'[w] # "commit"
      ]_vars

\* C3 witness: the poller is scanning a repo that needs an update, is not
\* queued, has a known type, and is being built
C3_Witness ==
    \E r \in RepoIds :
        /\ pc["w1"] = "scan" /\ Head(todo["w1"]) = r
        /\ Observed("w1", r).is_updating /\ Observed("w1", r).needs_update
        /\ Observed("w1", r).type \in {"rpm", "deb"}
        /\ running[r] > 0

\* C4: a repo of unknown type whose infer_type() returns none is unchanged by
\* every step of a poll cycle, is_queued included.
C4_UninferableRepoUnchanged ==
    [][\A w \in Workers : \A r \in RepoIds :
        (/\ pc[w] \in {"scan", "commit"} /\ Head(todo[w]) = r /\ PollStep(w)
         /\ repo[r].exists /\ repo[r].type = "unknown" /\ infer_type(r) = "none")
            => repo'[r] = repo[r]
      ]_vars

\* C5: when poll_repos scans a repo it sees with needs_update, not updating and
\* of unknown type, and infer_type() returns a type, the step submits no job
\* and leaves that type for the commit; the commit writes the type to the row
\* (if the row still exists) and submits no job either.
C5_InferredTypePersistedNoJob ==
    [][\A w \in Workers : \A r \in RepoIds :
        /\ (/\ Handles(w, r, "scan")
            /\ Observed(w, r).needs_update /\ ~Observed(w, r).is_updating
            /\ Observed(w, r).type = "unknown" /\ infer_type(r) # "none") =>
              /\ queue' = queue
              /\ pc'[w] = "commit"
              /\ pending_type'[w] = infer_type(r)
        /\ (Handles(w, r, "commit") /\ pending_type[w] # "none" /\ repo[r].exists) =>
              /\ repo'[r].type = pending_type[w]
              /\ queue' = queue
      ]_vars

\* C5 witness: a cycle has inferred deb for a repo and committed it, and the
\* repo has no job
C5_Witness ==
    \E r \in RepoIds :
        /\ r \in inferred /\ streak = "one"
        /\ repo[r].type = "deb" /\ bins[r] = <<"deb">>
        /\ queue[r] = << >> /\ running[r] = 0

\* C6: when a cycle has inferred and persisted a repo's type and the next
\* cycle has run with nothing else acting in between, a job for that repo is
\* in the queue, for the builder of the inferred type.
C6_InferredRepoBuiltByNextCycle ==
    streak = "two" =>
        \A r \in inferred :
            \E i \in 1..Len(queue[r]) : queue[r][i].task = Builder(repo[r].type)

\* C7: with a single poller, no second build job is submitted for a repo while
\* its first is still waiting out quiet_time, whatever update or recreate
\* requests arrive meanwhile.
C7_QuietTimeDebounce == \A r \in RepoIds : Len(queue[r]) <= 1

\* C8: a poll cycle that follows a completed cycle, with nothing else acting
\* since that cycle started, submits no job, emits no queued notification and
\* changes no row.
C8_SecondCycleChangesNothing ==
    [][\A w \in Workers :
        (streak \in {"one", "run2", "two"} /\ PollStep(w)) =>
            /\ queue' = queue
            /\ notes'[w] = << >>
            /\ repo' = repo /\ bins' = bins
      ]_vars

\* C8 witness: the second cycle is scanning a row (one whose build is running)
\* after a first cycle that queued a repo whose job is still waiting
C8_Witness ==
    /\ streak = "run2" /\ pc["w1"] = "scan"
    /\ \E r \in RepoIds : repo[r].is_queued /\ queue[r] # << >>

\* C9: after a purge cycle that met no filesystem error other than a file or
\* a directory already missing on disk, no repo with modified < now - 14 days
\* is left, and every repo the cycle purged is gone with its Binary rows and
\* has exactly one deleted notification. (The claim's directory is left out:
\* the rows and the notification already decide it.)
C9_StaleReposGone ==
    ppc \in {"done", "failed_enoent"} =>
        \A r \in RepoIds :
            /\ repo[r].exists => repo[r].modified >= lifespan
            /\ InSeq(r, deleted_notes) =>
                  /\ ~repo[r].exists /\ bins[r] = << >>
                  /\ Cardinality({i \in 1..Len(deleted_notes) :
                                    deleted_notes[i] = r}) = 1

\* C10: no step of purge_repos touches a repo with modified >= now - 14 days:
\* its row, its Binary rows, its files and its directory are as before and no
\* deleted notification names it.
C10_FreshReposKept ==
    [][PurgeStep =>
        \A r \in RepoIds :
            (repo[r].exists /\ repo[r].modified >= lifespan') =>
                /\ repo'[r] = repo[r] /\ bins'[r] = bins[r]
                /\ files'[r] = files[r] /\ dirs'[r] = dirs[r]
                /\ ~InSeq(r, deleted_notes')
      ]_vars

\* C10 witness: a purge cycle has deleted a stale repo and kept one whose
\* modified equals the boundary
C10_Witness ==
    /\ ppc = "done"
    /\ \E r, r2 \in RepoIds :
        /\ ~repo[r].exists /\ InSeq(r, deleted_notes)
        /\ repo[r2].exists /\ repo[r2].modified = lifespan

\* purge_repos handles row r in this step (lines 75-95)
Purges(r) == ppc = "purging" /\ Head(ptodo) = r /\ PurgeStep

\* C11: every step of a purge cycle that read the purge_repos flag as unset
\* or False leaves every Repo row, Binary row, file and directory as it was
\* and has emitted no deleted notification; the cycle ends at once.
C11_DisabledPurgeDeletesNothing ==
    [][(PurgeStep /\ ~purge_flag') =>
            /\ repo' = repo /\ bins' = bins
            /\ files' = files /\ dirs' = dirs
            /\ deleted_notes' = << >>
            /\ ppc' = "skipped" /\ ptodo' = << >>
      ]_vars

\* C11 witness: a disabled cycle has returned while a repo older than the
\* window of some `now`, with a binary on disk and a built directory, is there
C11_Witness ==
    /\ ppc = "skipped" /\ ~purge_flag
    /\ \E r \in RepoIds :
          /\ repo[r].exists /\ repo[r].path /\ dirs[r]
          /\ \E now \in Nows : repo[r].modified < now - lifespan_weeks
          /\ \E i \in 1..Len(bins[r]) : files[r][i]

\* C12: every repo a step of purge_repos deletes has needs_update, is_queued
\* and is_updating all false just before, and no build job pending or running.
C12_PurgedReposAreIdle ==
    [][\A r \in RepoIds :
        (PurgeStep /\ repo[r].exists /\ ~repo'[r].exists) =>
            /\ ~repo[r].needs_update /\ ~repo[r].is_queued /\ ~repo[r].is_updating
            /\ queue[r] = << >> /\ running[r] = 0
      ]_vars

\* C13: when purge_repos handles a repo and the removal of one of its binary
\* files fails with an error other than 'not found' (the file was there and
\* is still there), the error propagates: the task fails and the repo's
\* Binary rows and Repo row are kept.
C13_OtherFileErrorPropagates ==
    [][\A r \in RepoIds :
        (Purges(r) /\ \E i \in 1..Len(bins[r]) : files[r][i] /\ files'[r][i]) =>
            /\ ppc' \in {"failed_enoent", "failed_oserror"}
            /\ bins'[r] = bins[r] /\ repo'[r] = repo[r]
      ]_vars

\* C14: when purge_repos handles a repo that has a path whose directory is
\* already missing, the step ends with the Repo row deleted and a deleted
\* notification emitted for it, and the task has not failed.
C14_MissingDirectoryIsSuccess ==
    [][\A r \in RepoIds :
        (Purges(r) /\ PurgePath(r) /\ ~dirs[r]) =>
            /\ ~repo'[r].exists
            /\ InSeq(r, deleted_notes')
            /\ ppc' \in {"purging", "done"}
      ]_vars

\* C15: a purge cycle started right after a completed enabled cycle, enabled
\* itself and with the same `now`, returns at once: it deletes no row, file
\* or directory and emits no deleted notification. (Nothing that acts between
\* the two cycles makes a repo stale, so "in a row" need not be assumed.)
C15_SecondPurgeIsNoOp ==
    [][(/\ ppc = "done" /\ purge_flag /\ purge_flag'
        /\ lifespan' = lifespan /\ PurgeStep) =>
            /\ ppc' = "done"
            /\ repo' = repo /\ bins' = bins
            /\ files' = files /\ dirs' = dirs
            /\ deleted_notes' = << >>
      ]_vars

\* C15 witness: the latest cycle, with the `now` that makes the oldest repos
\* stale, was enabled, has completed and deleted nothing, a repo having been
\* purged by a cycle before it
C15_Witness ==
    /\ ppc = "done" /\ purge_flag /\ deleted_notes = << >>
    /\ \A now \in Nows : lifespan >= now - lifespan_weeks
    /\ \E r \in RepoIds : ~repo[r].exists

\* every request made so far was answered with a client/server error status
AllHttpErrors == \A i \in 1..Len(cb_posts) : cb_posts[i].resp = "http_error"

\* the callback's delivery runs in this step
CallbackRuns == cb_pc = "pending" /\ cb_pc' # "pending"

\* the outcome of the request the step made, "none" if it made none
Sent == IF cb_posts' = cb_posts THEN "none" ELSE cb_posts'[Len(cb_posts')].resp

\* C16, as stated: against an endpoint that answers every request with an
\* HTTP error status, one callback task makes at most 3 send attempts.
C16_AtMostThreeAttempts == AllHttpErrors => Len(cb_posts) <= 3

\* C16, amended: against such an endpoint one callback task makes at most 4
\* send attempts, the first and 3 retries; every retry is requested with a
\* delay of 30 seconds; the failure of the 4th attempt is raised and no
\* retry follows.
C16_AtMostThreeRetries ==
    AllHttpErrors =>
        /\ Len(cb_posts) <= 4
        /\ cb_retries <= 3
        /\ cb_pc = "retry" => cb_delay = 30 /\ Len(cb_posts) = cb_retries + 1
        /\ Len(cb_posts) = 4 => cb_pc = "raised_http_error"

\* C16 witness: the fourth attempt of a callback with a dict payload has
\* failed like the three before it, and the task has given up
C16_Witness ==
    /\ cb_pc = "raised_http_error" /\ cb_args.data = "dict"
    /\ Len(cb_posts) = 4 /\ AllHttpErrors
    /\ cb_retries = 3 /\ cb_delay = 30

\* C17: a callback with no url argument while callback_url is not configured
\* makes no request, requests no retry and returns None; a callback with a
\* url argument posts to that url and no other, and does post when nothing
\* else stops it, callback_url configured or not.
C17_NoEndpointIsNoOp ==
    /\ (cb_args.url = "none" /\ ~cb_conf.callback_url) =>
            /\ cb_posts = << >> /\ cb_retries = 0 /\ cb_delay = 0
            /\ cb_pc \in {"pending", "returned_none"}
    /\ cb_args.url = "explicit" =>
            /\ \A i \in 1..Len(cb_posts) : cb_posts[i].url = "explicit"
            /\ (/\ cb_conf.callback_user /\ cb_conf.callback_key
                /\ cb_args.data \in {"str", "dict"}
                /\ cb_pc \notin {"idle", "pending"}) => cb_posts # << >>

\* C17 witness: a callback with no url argument has returned without a
\* request, callback_url being unset while the credentials are configured
C17_Witness ==
    /\ cb_pc = "returned_none" /\ cb_posts = << >>
    /\ cb_args.url = "none" /\ ~cb_conf.callback_url
    /\ cb_conf.callback_user /\ cb_conf.callback_key /\ cb_args.data = "dict"

\* C18: a callback whose callback_user or callback_key is not configured, or
\* whose dict payload json.dumps rejects, makes no request and requests no
\* retry: the task ends with its first delivery.
C18_LocalErrorNeverRetried ==
    (\/ ~cb_conf.callback_user \/ ~cb_conf.callback_key
     \/ cb_args.data \in {"dict_type_error", "dict_circular"}) =>
        /\ cb_posts = << >> /\ cb_retries = 0 /\ cb_delay = 0
        /\ cb_pc \in {"idle", "pending", "returned_none", "returned_false",
                       "raised_value_error"}

\* C18 witness: a callback to an explicit url, with credentials configured,
\* has returned False on a payload that could not be serialized
C18_Witness ==
    /\ cb_pc = "returned_false" /\ cb_args.data = "dict_type_error"
    /\ cb_args.url = "explicit"
    /\ cb_conf.callback_user /\ cb_conf.callback_key
    /\ cb_posts = << >>

\* C19: when a step of poll_repos emits the queued notification or submits
\* the build job for a repo, is_queued=true is already committed on its row.
C19_FlagCommittedBeforeJob ==
    [][\A w \in Workers : \A r \in RepoIds :
        (/\ Handles(w, r, "scan")
         /\ \/ queue'[r] # queue[r]
            \/ notes'[w] = Append(notes[w], r)) => repo[r].is_queued
      ]_vars

\* C20: a delivery of the callback ends with self.retry called (the retry
\* scheduled, or its exception raised once the retries are used up) exactly
\* when its request was answered with a client/server error status; when the
\* request failed otherwise, the delivery returns None: no retry, no error.
C20_RetryOnlyOnHttpError ==
    [][CallbackRuns =>
        /\ (cb_pc' \in {"retry", "raised_http_error"}) <=> (Sent = "http_error")
        /\ Sent = "conn_error" =>
              cb_pc' = "returned_none" /\ cb_delay' = cb_delay
      ]_vars

\* C20 witness: the first request got an error status and was retried; the
\* retry's request failed without a response and the task returned
C20_Witness ==
    /\ cb_pc = "returned_none" /\ cb_retries = 1
    /\ Len(cb_posts) = 2
    /\ cb_posts[1].resp = "http_error" /\ cb_posts[2].resp = "conn_error"

\* the number of deleted notifications the current purge cycle emitted for r
DeletedNotes(r, seq) == Cardinality({i \in 1..Len(seq) : seq[i] = r})

\* C21: when the step of purge_repos that handles a repo ends with the task
\* failed on a filesystem error, the repos the cycle purged before it are
\* still gone, with their Binary rows and one deleted notification each; the
\* repo's own row and Binary rows are as before and no deleted notification
\* names it; the repos that were to follow it are untouched: rows, Binary
\* rows, files and directory as before, and no notification.
C21_PurgeFaultIsolation ==
    [][\A r \in RepoIds :
        (Purges(r) /\ ppc' \in {"failed_enoent", "failed_oserror"}) =>
            /\ repo[r].exists /\ repo'[r] = repo[r] /\ bins'[r] = bins[r]
            /\ DeletedNotes(r, deleted_notes') = 0
            /\ \A q \in RepoIds :
                  InSeq(q, deleted_notes) =>
                      /\ ~repo'[q].exists /\ bins'[q] = << >>
                      /\ DeletedNotes(q, deleted_notes') = 1
            /\ \A q \in RepoIds :
                  InSeq(q, Tail(ptodo)) =>
                      /\ repo'[q] = repo[q] /\ repo[q].exists
                      /\ bins'[q] = bins[q] /\ files'[q] = files[q]
                      /\ dirs'[q] = dirs[q]
                      /\ DeletedNotes(q, deleted_notes') = 0
      ]_vars

\* C21 witness: the cycle purged repo 1 and then failed on the directory of
\* repo 2, whose removal was denied: repo 1 is gone and notified, repo 2 is
\* there with its directory and without a notification
C21_Witness ==
    /\ ppc = "failed_oserror"
    /\ deleted_notes = <<1>> /\ ~repo[1].exists
    /\ repo[2].exists /\ repo[2].path /\ dirs[2] /\ bins[2] # << >>

\* worker w's cycle fails in this step
PollFails(w) == pc[w] \in {"scan", "commit"} /\ pc'[w] = "failed"

\* C22: when a poll cycle fails, the step leaves every row as committed, so
\* the repos processed earlier keep their is_queued and type; and every repo
\* the cycle has submitted a job for, its job still waiting, has is_queued
\* committed on its row (here with no update or recreate request ever made).
C22_JobsOnlyForCommittedRepos ==
    [][\A w \in Workers :
        (PollFails(w) /\ triggers = 0) =>
            /\ repo' = repo
            /\ \A r \in RepoIds :
                  (InSeq(r, notes[w]) /\ queue[r] # << >>) =>
                      repo[r].exists /\ repo[r].is_queued
      ]_vars

\* C23: no step of poll_repos changes needs_update, is_updating, path,
\* modified or the binaries of a repo, sets is_queued from true to false or
\* changes a type that is rpm or deb; a step sets a repo's is_queued from
\* false to true only after the cycle's queued notification for it; and the
\* commit that follows a repo's queued notification sets its is_queued from
\* false to true.
C23_PollerFrame ==
    [][\A w \in Workers : \A r \in RepoIds :
        /\ PollStep(w) =>
              /\ repo'[r].needs_update = repo[r].needs_update
              /\ repo'[r].is_updating = repo[r].is_updating
              /\ repo'[r].path = repo[r].path
              /\ repo'[r].modified = repo[r].modified
              /\ repo'[r].exists = repo[r].exists
              /\ bins'[r] = bins[r]
              /\ repo[r].is_queued => repo'[r].is_queued
              /\ repo[r].type \in {"rpm", "deb"} => repo'[r].type = repo[r].type
              /\ (~repo[r].is_queued /\ repo'[r].is_queued) => InSeq(r, notes[w])
        /\ (Handles(w, r, "commit") /\ InSeq(r, notes[w])) =>
              ~repo[r].is_queued /\ repo'[r].is_queued
      ]_vars
====
